---- MODULE Spec2Model ----
(***************************************************************************)
(* A model of unifi-mongodb-logs-to-loki (src/main.py): the UnifiToLoki    *)
(* consumer that tails a MongoDB change stream, POSTs every insert of a    *)
(* wanted collection to Loki and pickles the change's resume token to      *)
(* RESUME_TOKEN_FILE after each change.                                    *)
(*                                                                         *)
(* Python dicts are functions whose DOMAIN is the set of keys present.     *)
(* The change stream is a sequence; the i-th change carries the resume     *)
(* token TokenOf(i).  The Loki endpoint and the operating system (process  *)
(* termination) are the environment.                                       *)
(***************************************************************************)
EXTENDS Integers, Sequences, FiniteSets, TLC

\* ------------------------------------------------------------------ bounds
\* Longest change stream explored.
MaxEvents == 2
\* Number of times the process is started.
MaxStarts == 2
\* Number of requests the endpoint is sent.
MaxPosts == 3

\* ---------------------------------------------------------------- python
None == "None"

\* dict.get(key, default)
Get(d, k, default) == IF k \in DOMAIN d THEN d[k] ELSE default

\* ------------------------------------------------------------- constants
WANTED_COLLECTIONS ==
    { "admin_activity_log", "alarm", "alert", "event",
      "inspection_log", "threat_log_view", "trigger_log" }

\* self.host: LOG_HOST or gethostname()
HOST == "loghost"

\* coll in self.WANTED_COLLECTIONS, with the filter left out.
Wanted_NoFilter(coll) == TRUE

\* coll in self.WANTED_COLLECTIONS
Wanted(coll) == coll \in WANTED_COLLECTIONS

\* ------------------------------------------------------ _labels_for_change
\* The branch of the if/elif chain that sets row_key, with the branch for
\* threat_log_view reading `key` like its neighbours.
RowKey_KeyEverywhere(change) ==
    LET c == change["collection"] IN
    IF c = "inspection_log"
    THEN Get(change, "log_source", "") \o "/" \o Get(change, "action", "")
    ELSE Get(change, "key", "unknown")

\* The value the if/elif chain stores under row_key; only evaluated for the
\* collections the chain names.
RowKey(change) ==
    LET c == change["collection"] IN
    IF c = "admin_activity_log" THEN Get(change, "key", "unknown")
    ELSE IF c = "alarm" THEN Get(change, "key", "unknown")
    ELSE IF c = "alert" THEN Get(change, "key", "unknown")
    ELSE IF c = "event" THEN Get(change, "key", "unknown")
    ELSE IF c = "inspection_log"
         THEN Get(change, "log_source", "") \o "/" \o Get(change, "action", "")
    ELSE IF c = "threat_log_view" THEN Get(change, "signature", "unknown")
    ELSE Get(change, "key", "unknown")   \* trigger_log

\* The collections some branch of the if/elif chain matches.
HasRowKeyBranch(c) ==
    c \in { "admin_activity_log", "alarm", "alert", "event",
            "inspection_log", "threat_log_view", "trigger_log" }

\* _labels_for_change(change): no branch matches another collection, and the
\* four fixed labels are returned without row_key; nothing is raised.
labels_for_change(change) ==
    LET result == [ source     |-> "unifi-mongodb-watcher",
                    job        |-> "unifi-mongodb-watcher",
                    host       |-> HOST,
                    collection |-> change["collection"] ]
    IN  [ raised |-> None,
          value  |-> IF HasRowKeyBranch(change["collection"])
                     THEN ("row_key" :> RowKey(change)) @@ result
                     ELSE result ]

\* ------------------------------------------------------------ handle_change
\* A `time` value is an integer written as its sequence of decimal digits,
\* so that len(str(time)) is Len(time).
T10 == <<1, 7, 0, 0, 0, 0, 0, 0, 0, 0>>
T13 == T10 \o <<0, 0, 0>>

\* Front of a non-empty sequence.
Front(s) == SubSeq(s, 1, Len(s) - 1)

\* A digit sequence without its leading zeros (one digit is kept).
RECURSIVE Strip(_)
Strip(s) == IF Len(s) > 1 /\ s[1] = 0 THEN Strip(Tail(s)) ELSE s

\* The decimal digits of a natural number.
RECURSIVE Digits(_)
Digits(n) == IF n < 10 THEN <<n>> ELSE Append(Digits(n \div 10), n % 10)

\* Long division of a digit sequence by d: quotient digits and remainder.
RECURSIVE DivRem(_, _)
DivRem(t, d) ==
    IF t = <<>> THEN [ q |-> <<>>, r |-> 0 ]
    ELSE LET p == DivRem(Front(t), d)
             n == p.r * 10 + t[Len(t)]
         IN  [ q |-> Append(p.q, n \div d), r |-> n % d ]

\* The digits of t * m + carry, for a digit sequence t.
RECURSIVE MulAdd(_, _, _)
MulAdd(t, m, carry) ==
    IF t = <<>> THEN (IF carry = 0 THEN <<>> ELSE Digits(carry))
    ELSE LET n == t[Len(t)] * m + carry
         IN  Append(MulAdd(Front(t), m, n \div 10), n % 10)

\* t * m
Mul(t, m) == Strip(MulAdd(t, m, 0))

\* change['time'] / 1000: a float, kept as its whole part and thousandths
\* (exact for the values of up to 15 digits considered here).
TrueDiv1000(t) ==
    [ float |-> TRUE, whole |-> Strip(DivRem(t, 1000).q),
      milli |-> DivRem(t, 1000).r ]

\* The normalisation with the test written `>= 10`.
NormTime_OffByOne(t) ==
    IF Len(t) >= 10 THEN TrueDiv1000(t)
    ELSE [ float |-> FALSE, whole |-> t, milli |-> 0 ]

\* if len(str(change['time'])) > 10: change['time'] = change['time'] / 1000
\* The value change['time'] holds afterwards.
NormTime(t) ==
    IF Len(t) > 10 THEN TrueDiv1000(t)
    ELSE [ float |-> FALSE, whole |-> t, milli |-> 0 ]

\* int(x): the fraction is cut off.
IntOf(x) == x.whole

\* str(int(change['time']) * 1000000000)
Ts(t) == Mul(Mul(Mul(IntOf(NormTime(t)), 1000), 1000), 1000)

\* str(change['_id']) of an ObjectId
Str(oid) == oid.oid

\* change.get('ns', {}).get('coll')
Coll(change) == Get(Get(change, "ns", <<>>), "coll", None)

\* handle_change with a default put in for a missing '_id' or 'time'.
BuildPayload_Lenient(change) ==
    IF "ns" \notin DOMAIN change
    THEN [ raised |-> "KeyError", payload |-> <<>> ]
    ELSE LET doc == ("collection" :> change["ns"]["coll"])
                        @@ change["fullDocument"]
                        @@ ("_id" :> "") @@ ("time" :> T10)
         IN  [ raised  |-> None,
               payload |-> [ streams |->
                   << [ stream |-> labels_for_change(doc).value,
                        values |-> << <<T10, doc>> >> ] >> ] ]

\* handle_change that keeps a `collection` field the document already has.
BuildPayload_DocWins(change) ==
    IF \/ "ns" \notin DOMAIN change
       \/ "_id" \notin DOMAIN change["fullDocument"]
       \/ "time" \notin DOMAIN change["fullDocument"]
    THEN [ raised |-> "KeyError", payload |-> <<>> ]
    ELSE LET doc0 == change["fullDocument"]
                         @@ ("collection" :> change["ns"]["coll"])
         IN  LET doc1 == [doc0 EXCEPT !["_id"] = Str(@)]
                 doc  == [doc1 EXCEPT !["time"] = NormTime(@)]
                 ts   == Ts(doc1["time"])
             IN  [ raised  |-> None,
                   payload |-> [ streams |->
                       << [ stream |-> labels_for_change(doc).value,
                            values |-> << <<ts, doc>> >> ] >> ] ]

\* handle_change up to the POST: the KeyError a missing '_id' or 'time'
\* raises, or the payload that is posted.  The documents of the consumer
\* specification are single-level, so the flattened line carries the
\* document's own keys.
BuildPayload(change) ==
    IF \/ "ns" \notin DOMAIN change
       \/ "_id" \notin DOMAIN change["fullDocument"]
       \/ "time" \notin DOMAIN change["fullDocument"]
    THEN [ raised |-> "KeyError", payload |-> <<>> ]
    ELSE LET doc0 == ("collection" :> change["ns"]["coll"])
                         @@ change["fullDocument"]
         IN  LET doc1 == [doc0 EXCEPT !["_id"] = Str(@)]
                 doc  == [doc1 EXCEPT !["time"] = NormTime(@)]
                 ts   == Ts(doc1["time"])
             IN  [ raised  |-> None,
                   payload |-> [ streams |->
                       << [ stream |-> labels_for_change(doc).value,
                            values |-> << <<ts, doc>> >> ] >> ] ]

\* resp.raise_for_status() as it would be if it raised for every status that
\* is not 2xx.
RaisesForStatus_Strict(status) == status < 200 \/ status >= 300

\* resp.raise_for_status(): requests raises HTTPError for 400..599 only.
RaisesForStatus(status) == 400 <= status /\ status < 600

\* The status codes the endpoint answers with, one of each class.
Statuses == {101, 204, 304, 404, 503}

\* ------------------------------------------------------------ change stream
\* The resume token (change['_id']) of the i-th change of the stream.
TokenOf(i) == ToString(i)

Doc(fields) == ("_id" :> [oid |-> "x1"]) @@ ("time" :> T13) @@ fields

\* The changes the source database emits (operationType insert).
SampleEvents ==
    { [ ns |-> [coll |-> "alert"], fullDocument |-> Doc("key" :> "k1") ],
      [ ns |-> [coll |-> "inspection_log"],
        fullDocument |-> Doc(("log_source" :> "fw")
                                @@ ("collection" :> "alert")) ],
      [ ns |-> [coll |-> "alert"],
        fullDocument |-> ("_id" :> [oid |-> "x1"]) @@ ("key" :> "k1") ],
      [ ns |-> [coll |-> "alert"],
        fullDocument |-> ("time" :> T13) @@ ("key" :> "k1") ],
      [ ns |-> [coll |-> "site"], fullDocument |-> Doc("key" :> "k1") ],
      [ fullDocument |-> Doc("key" :> "k1") ] }

\* ------------------------------------------------------------------- state
VARIABLES
    stream,        \* the changes emitted so far, oldest first
    file,          \* RESUME_TOKEN_FILE: [exists, data]
    pc,            \* where the process is
    resume_token,  \* self.resume_token
    cursor,        \* index of the last change the stream has yielded
    runStart,      \* cursor when this run opened the stream
    postsAtOpen,   \* Len(posts) when this run opened the stream
    inflight,      \* requests sent and not yet answered
    posts,         \* requests the endpoint received: [ev, status, payload]
    err,           \* the exception that ended the last run, or None
    starts,        \* number of times the process was started
    firstPersist,  \* position of the first token ever written, 0 before
    lastPersist,   \* position of the last token written in full, 0 before
    lchange,       \* label specification: the argument of _labels_for_change
    lresult,       \* label specification: its result, once applied
    farg,          \* function specifications: the argument
    fres           \* function specifications: the result, once applied

vars == << stream, file, pc, resume_token, cursor, runStart, postsAtOpen,
           inflight, posts, err, starts, firstPersist, lastPersist, lchange,
           lresult, farg, fres >>

auxVars == << firstPersist, lastPersist, lchange, lresult, farg, fres >>

\* pickle.dump(token, fh) / pickle.load(fh); an empty file raises EOFError.
Pickle(token) == << "pkl", token >>
Unpickle(data) == data[2]

\* The file RESUME_TOKEN_FILE holding a complete pickle of the token.
FileOf(token) == [ exists |-> TRUE, data |-> Pickle(token) ]

\* The position a resume token stands for in the stream.
PosOf(token) == CHOOSE i \in 1..Len(stream) : TokenOf(i) = token

Init ==
    /\ stream = <<>>
    /\ file = [ exists |-> FALSE, data |-> <<>> ]
    /\ pc = "down"
    /\ resume_token = None
    /\ cursor = 0
    /\ runStart = 0
    /\ postsAtOpen = 0
    /\ inflight = {}
    /\ posts = <<>>
    /\ err = None
    /\ starts = 0
    /\ firstPersist = 0
    /\ lastPersist = 0
    /\ lchange = <<>>
    /\ lresult = <<>>
    /\ farg = <<>>
    /\ fres = <<>>

\* ----------------------------------------------------------------- actions
\* An exception leaves run() with the position saved on the way out, as a
\* `finally` around the loop body would.
Abort_SavePosition(e) ==
    /\ pc' = "down"
    /\ err' = e
    /\ inflight' = {}
    /\ file' = IF cursor > 0 THEN FileOf(TokenOf(cursor)) ELSE file
    /\ UNCHANGED << resume_token, cursor >>

\* An exception leaves run() (or __init__): the process ends, the file is
\* left alone.
Abort(e) ==
    /\ pc' = "down"
    /\ err' = e
    /\ inflight' = {}
    /\ UNCHANGED << file, resume_token, cursor >>

\* The source database emits one more insert.
Produce ==
    /\ Len(stream) < MaxEvents
    /\ \E e \in SampleEvents : stream' = Append(stream, e)
    /\ UNCHANGED << file, pc, resume_token, cursor, runStart, postsAtOpen,
                    inflight, posts, err, starts, auxVars >>

\* UnifiToLoki.__init__: read the token file once, if it exists.
Start ==
    /\ pc = "down"
    /\ starts < MaxStarts
    /\ starts' = starts + 1
    /\ IF file.exists /\ file.data = <<>>
       THEN /\ pc' = "down"
            /\ err' = "EOFError"
            /\ resume_token' = None
       ELSE /\ pc' = "constructed"
            /\ err' = None
            /\ resume_token' = IF file.exists THEN Unpickle(file.data) ELSE None
    /\ UNCHANGED << stream, file, cursor, runStart, postsAtOpen, inflight,
                    posts, auxVars >>

\* db.watch(..., start_at=...): from the change of the token itself, or from
\* the oldest change when there is no token.
Watch_Replay ==
    /\ pc = "constructed"
    /\ cursor' = IF resume_token = None THEN 0
                 ELSE PosOf(resume_token) - 1
    /\ runStart' = cursor'
    /\ postsAtOpen' = Len(posts)
    /\ pc' = "watching"
    /\ UNCHANGED << stream, file, resume_token, inflight, posts, err, starts,
                    auxVars >>

\* db.watch(..., resume_after=self.resume_token): after the token, or from
\* the current end of the stream when there is none.
Watch ==
    /\ pc = "constructed"
    /\ cursor' = IF resume_token = None THEN Len(stream)
                 ELSE PosOf(resume_token)
    /\ runStart' = cursor'
    /\ postsAtOpen' = Len(posts)
    /\ pc' = "watching"
    /\ UNCHANGED << stream, file, resume_token, inflight, posts, err, starts,
                    auxVars >>

\* The stream cannot be read while a change is being handled.
CanRead_Pipelined == pc \in {"watching", "post"}

\* `for change in stream` yields only between two iterations of the body.
CanRead == pc = "watching"

\* for change in stream: the next change, and the filter on its collection.
NextChange ==
    /\ CanRead
    /\ cursor < Len(stream)
    /\ cursor' = cursor + 1
    /\ pc' = IF Wanted(Coll(stream[cursor + 1])) THEN "handle" ELSE "persist"
    /\ UNCHANGED << stream, file, resume_token, runStart, postsAtOpen,
                    inflight, posts, err, starts, auxVars >>

\* PyMongoError from the iteration printed and not re-raised: the loop
\* goes on.
StreamError_Swallowed ==
    /\ pc = "watching"
    /\ err' = "PyMongoError"
    /\ UNCHANGED << file, pc, resume_token, cursor, inflight >>
    /\ UNCHANGED << stream, runStart, postsAtOpen, posts, starts, auxVars >>

\* PyMongoError from db.watch or from the iteration: printed and re-raised.
StreamError ==
    /\ pc \in {"constructed", "watching"}
    /\ Abort("PyMongoError")
    /\ UNCHANGED << stream, runStart, postsAtOpen, posts, starts, auxVars >>

\* handle_change that does not post a payload equal to the one posted last.
Send_Dedup ==
    /\ pc = "handle"
    /\ Len(posts) < MaxPosts
    /\ LET b == BuildPayload(stream[cursor]) IN
       IF b.raised # None
       THEN Abort(b.raised)
       ELSE /\ IF posts # <<>> /\ posts[Len(posts)].payload = b.payload
               THEN inflight' = inflight /\ pc' = "persist"
               ELSE /\ inflight' = inflight \cup
                                     {[ ev |-> cursor, payload |-> b.payload ]}
                    /\ pc' = "post"
            /\ UNCHANGED << file, resume_token, cursor, err >>
    /\ UNCHANGED << stream, runStart, postsAtOpen, posts, starts, auxVars >>

\* handle_change up to requests.post: the request is sent, or KeyError.
Send ==
    /\ pc = "handle"
    /\ Len(posts) < MaxPosts
    /\ LET b == BuildPayload(stream[cursor]) IN
       IF b.raised # None
       THEN Abort(b.raised)
       ELSE /\ inflight' = inflight \cup
                             {[ ev |-> cursor, payload |-> b.payload ]}
            /\ pc' = "post"
            /\ UNCHANGED << file, resume_token, cursor, err >>
    /\ UNCHANGED << stream, runStart, postsAtOpen, posts, starts, auxVars >>

\* The endpoint answers; resp.raise_for_status() decides.
Respond ==
    /\ pc = "post"
    /\ \E r \in inflight, status \in Statuses :
         /\ posts' = Append(posts, [ ev |-> r.ev, status |-> status,
                                     payload |-> r.payload, seen |-> TRUE ])
         /\ IF RaisesForStatus(status)
            THEN Abort("HTTPError")
            ELSE /\ pc' = "persist"
                 /\ inflight' = inflight \ {r}
                 /\ UNCHANGED << file, resume_token, cursor, err >>
    /\ UNCHANGED << stream, runStart, postsAtOpen, starts, auxVars >>

\* What happens to the request when the connection goes away: it never got
\* there, or the endpoint stored it and the answer is lost.
Lost(p) ==
    \/ p = posts
    \/ \E r \in inflight :
         p = Append(posts, [ ev |-> r.ev, status |-> 204,
                             payload |-> r.payload, seen |-> FALSE ])

\* requests.post raises (connection refused, reset, ...): not caught.
TransportError ==
    /\ pc = "post"
    /\ Lost(posts')
    /\ Abort("ConnectionError")
    /\ UNCHANGED << stream, runStart, postsAtOpen, starts, auxVars >>

\* self.resume_token = change['_id']; open(RESUME_TOKEN_FILE, 'wb'), which
\* creates or truncates the file.
PersistOpen ==
    /\ pc = "persist"
    /\ resume_token' = TokenOf(cursor)
    /\ file' = [ exists |-> TRUE, data |-> <<>> ]
    /\ pc' = "dump"
    /\ UNCHANGED << stream, cursor, runStart, postsAtOpen, inflight, posts,
                    err, starts, auxVars >>

\* pickle.dump(self.resume_token, fh) and the close that flushes it.
PersistDump ==
    /\ pc = "dump"
    /\ file' = FileOf(resume_token)
    /\ pc' = "watching"
    /\ firstPersist' = IF firstPersist = 0 THEN cursor ELSE firstPersist
    /\ lastPersist' = cursor
    /\ UNCHANGED << stream, resume_token, cursor, runStart, postsAtOpen,
                    inflight, posts, err, starts, lchange, lresult,
                    farg, fres >>

\* The operating system terminates the process, wherever it is.
Kill ==
    /\ pc # "down"
    /\ pc' = "down"
    /\ err' = "killed"
    /\ inflight' = {}
    /\ IF pc = "post" THEN Lost(posts') ELSE posts' = posts
    /\ UNCHANGED << stream, file, resume_token, cursor, runStart,
                    postsAtOpen, starts, auxVars >>

Next ==
    \/ Produce
    \/ Start
    \/ Watch
    \/ NextChange
    \/ StreamError
    \/ Send
    \/ Respond
    \/ TransportError
    \/ PersistOpen
    \/ PersistDump
    \/ Kill

Spec == Init /\ [][Next]_vars

\* ------------------------------------------- _labels_for_change on its own
\* The fields _labels_for_change reads besides `collection`.
LabelFields == { "key", "signature", "log_source", "action" }
FieldValues == { "fw", "block" }

\* Collections outside WANTED_COLLECTIONS.
OtherCollections == { "site", "user" }

\* Flattened records carrying a `collection` field, each of the fields
\* present or absent.
LabelInputs ==
    { ("collection" :> c) @@ f :
        c \in WANTED_COLLECTIONS \cup OtherCollections,
        f \in UNION { [S -> FieldValues] : S \in SUBSET LabelFields } }

InitLabels ==
    /\ stream = <<>>
    /\ file = [ exists |-> FALSE, data |-> <<>> ]
    /\ pc = "label_call"
    /\ resume_token = None
    /\ cursor = 0
    /\ runStart = 0
    /\ postsAtOpen = 0
    /\ inflight = {}
    /\ posts = <<>>
    /\ err = None
    /\ starts = 0
    /\ firstPersist = 0
    /\ lastPersist = 0
    /\ lchange \in LabelInputs
    /\ lresult = <<>>
    /\ farg = <<>>
    /\ fres = <<>>

\* result = self._labels_for_change(change)
CallLabels ==
    /\ pc = "label_call"
    /\ lresult' = labels_for_change(lchange)
    /\ pc' = "label_return"
    /\ UNCHANGED << stream, file, resume_token, cursor, runStart, postsAtOpen,
                    inflight, posts, err, starts, firstPersist, lastPersist,
                    lchange, farg, fres >>

NextLabels == CallLabels

SpecLabels == InitLabels /\ [][NextLabels]_vars

\* --------------------------------------- the timestamp of handle_change
\* Longest `time` value, in decimal digits.
MaxTimeDigits == 14

\* The state of the consumer, idle, while a function is looked at on its own.
ConsumerIdle ==
    /\ stream = <<>>
    /\ file = [ exists |-> FALSE, data |-> <<>> ]
    /\ resume_token = None
    /\ cursor = 0
    /\ runStart = 0
    /\ postsAtOpen = 0
    /\ inflight = {}
    /\ posts = <<>>
    /\ err = None
    /\ starts = 0
    /\ firstPersist = 0
    /\ lastPersist = 0

consumerVars == << stream, file, resume_token, cursor, runStart, postsAtOpen,
                  inflight, posts, err, starts, firstPersist, lastPersist >>

\* n times the digit d.
Fill(d, n) == [ i \in 1..n |-> d ]

\* Non-negative integer `time` values of 1 to MaxTimeDigits digits: zero,
\* 1700000000 and 1700000000000, short ones, and a leading digit, a run of
\* sevens and three final digits.
TimeInputs ==
    { <<0>>, T10, T13 }
    \cup UNION { [1..n -> {1, 9}] : n \in 1..3 }
    \cup { <<lead>> \o Fill(7, n - 4) \o tail :
              lead \in {1, 9}, n \in 4..MaxTimeDigits,
              tail \in [1..3 -> {0, 5, 9}] }

InitTime ==
    /\ ConsumerIdle
    /\ pc = "time_call"
    /\ lchange = <<>>
    /\ lresult = <<>>
    /\ farg \in TimeInputs
    /\ fres = <<>>

\* Lines 167-169 of handle_change on change['time'] = farg.
CallTime ==
    /\ pc = "time_call"
    /\ fres' = [ time |-> NormTime(farg), ts |-> Ts(farg) ]
    /\ pc' = "time_return"
    /\ UNCHANGED << consumerVars, lchange, lresult, farg >>

NextTime == CallTime

SpecTime == InitTime /\ [][NextTime]_vars

\* ---------------------------------------------------------------- flatten
\* Keys are strings written as sequences of characters, so that they can be
\* joined and split.  A value is a leaf or a nested mapping
\* (isinstance(value, MutableMapping)); a leaf carries its scalar under a
\* name no key has.
separator == "_"

Leaf(n) == [ map |-> FALSE, v |-> (<<"#">> :> n) ]
Map(m) == [ map |-> TRUE, v |-> m ]

\* new_key, with the parent left out.
NewKey_NoParent(parent_key, key) == key

\* new_key, without the test on parent_key.
NewKey_AlwaysJoin(parent_key, key) == parent_key \o <<separator>> \o key

\* new_key = parent_key + separator + key if parent_key else key
NewKey(parent_key, key) ==
    IF parent_key # <<>> THEN parent_key \o <<separator>> \o key ELSE key

\* dict(items) on a list of (key, value) pairs: a dict in insertion order,
\* a later value for a key replacing the earlier one in place.
RECURSIVE DictOf(_)
DictOf(items) ==
    IF items = <<>> THEN <<>>
    ELSE LET rest == DictOf(Front(items))
             last == items[Len(items)]
             at   == { j \in 1..Len(rest) : rest[j][1] = last[1] }
         IN  IF at = {} THEN Append(rest, last)
             ELSE [ rest EXCEPT ![CHOOSE j \in at : TRUE] = last ]

\* flatten(dictionary, parent_key) on a dict given as its (key, value) pairs
\* in insertion order; FlattenItems is the list `items` built by the loop
\* from the i-th pair on.
RECURSIVE flatten(_, _), FlattenItems(_, _, _)
FlattenItems(dictionary, parent_key, i) ==
    IF i > Len(dictionary) THEN <<>>
    ELSE LET key     == dictionary[i][1]
             value   == dictionary[i][2]
             new_key == NewKey(parent_key, key)
         IN  (IF value.map THEN flatten(value.v, new_key)
              ELSE << <<new_key, value>> >>)
             \o FlattenItems(dictionary, parent_key, i + 1)

flatten(dictionary, parent_key) ==
    DictOf(FlattenItems(dictionary, parent_key, 1))

\* A dict of leaves as the mapping it is, whatever its insertion order.
AsMapping(d) ==
    [ k \in { d[i][1] : i \in 1..Len(d) } |->
        d[CHOOSE i \in 1..Len(d) : d[i][1] = k][2] ]

\* The dict holding mapping m, its keys inserted in the order ord lists them
\* at every level.
RECURSIVE Ordered(_, _), OrderedFrom(_, _, _)
OrderedFrom(m, ord, i) ==
    IF i > Len(ord) THEN <<>>
    ELSE (IF ord[i] \in DOMAIN m
          THEN << << ord[i],
                     IF m[ord[i]].map THEN Map(Ordered(m[ord[i]].v, ord))
                     ELSE m[ord[i]] >> >>
          ELSE <<>>)
         \o OrderedFrom(m, ord, i + 1)

Ordered(m, ord) == OrderedFrom(m, ord, 1)

\* Most keys a mapping holds.
MaxKeys == 2

\* The keys: the empty string, a, b and a_b.
Keys == { <<>>, <<"a">>, <<"b">>, <<"a", separator, "b">> }

KeySets == { S \in SUBSET Keys : Cardinality(S) <= MaxKeys }

\* Two insertion orders, one the reverse of the other.
KeyOrders ==
    { << <<>>, <<"a">>, <<"b">>, <<"a", separator, "b">> >>,
      << <<"a", separator, "b">>, <<"b">>, <<"a">>, <<>> >> }

\* Mappings of leaves only.
Maps0 == UNION { [S -> {Leaf(2)}] : S \in KeySets }

\* Mappings of leaves and of mappings of leaves.
Maps1 == UNION { [S -> {Leaf(1)} \cup { Map(m) : m \in Maps0 }] : S \in KeySets }

\* The same, one level further down.
Maps2 == { (<<"a">> :> Map(m)) : m \in Maps1 }

FlattenInputs == [ x : Maps1 \cup Maps2, ord : KeyOrders ]

InitFlatten ==
    /\ ConsumerIdle
    /\ pc = "flatten_call"
    /\ lchange = <<>>
    /\ lresult = <<>>
    /\ farg \in FlattenInputs
    /\ fres = <<>>

\* flat = flatten(x), and flatten(flat)
CallFlatten ==
    /\ pc = "flatten_call"
    /\ LET flat == flatten(Ordered(farg.x, farg.ord), <<>>) IN
           fres' = [ flat  |-> AsMapping(flat),
                     twice |-> AsMapping(flatten(flat, <<>>)) ]
    /\ pc' = "flatten_return"
    /\ UNCHANGED << consumerVars, lchange, lresult, farg >>

NextFlatten == CallFlatten

SpecFlatten == InitFlatten /\ [][NextFlatten]_vars

\* ================================================================== claims
\* The slot holds a complete token.
HasPosition == file.exists /\ file.data # <<>>

\* The position the slot stands for.
FilePos == PosOf(Unpickle(file.data))

\* Change i is of a wanted collection.
IsWanted(i) == Coll(stream[i]) \in WANTED_COLLECTIONS

\* A successful delivery: the status is 2xx.
Is2xx(status) == 200 <= status /\ status < 300

\* The consumer saw the endpoint answer 2xx to a request for change i.
SeenDelivered(i) ==
    \E k \in 1..Len(posts) :
        posts[k].ev = i /\ posts[k].seen /\ Is2xx(posts[k].status)

\* The endpoint answered 2xx to a request for change i.
Delivered(i) ==
    \E k \in 1..Len(posts) : posts[k].ev = i /\ Is2xx(posts[k].status)

\* C1: the durable resume position is the id of an event only if that event
\* was of an unwanted collection (skipped) or its POST completed with HTTP
\* success (2xx); it is never the id of a wanted event that was not
\* successfully delivered.
C1_PositionOnlyAfterSuccess ==
    HasPosition => (IsWanted(FilePos) => SeenDelivered(FilePos))

\* C2: no wanted event after the first persisted position is skipped over
\* by the resume position without a delivery that was answered 2xx.
C2_NoSilentDrop ==
    HasPosition =>
        \A i \in (firstPersist + 1)..FilePos : IsWanted(i) => Delivered(i)

\* C3: a step in which the POST of handle_change raises (HTTPError from
\* raise_for_status, or a transport error from requests.post) leaves the
\* token file as it was and ends the run with the cursor where it was: no
\* further change is read.
C3_DeliveryErrorKeepsPosition ==
    [][ (pc = "post" /\ err' \in {"HTTPError", "ConnectionError"})
          => (file' = file /\ pc' = "down" /\ cursor' = cursor) ]_vars

\* C3 witness: a run that had persisted a position ended with an HTTPError
\* on a later change, and the slot still holds the earlier position.
C3_Witness ==
    /\ pc = "down"
    /\ err = "HTTPError"
    /\ HasPosition
    /\ FilePos < cursor
    /\ Len(posts) > 0
    /\ posts[Len(posts)].ev = cursor
    /\ posts[Len(posts)].status = 503

\* C4: once the process has been terminated, the slot holds a complete
\* resume position whenever it exists: never an empty or partial value.
C4_SlotNeverPartial ==
    pc = "down" => (file.exists => file.data # <<>>)

\* C5: an event whose collection is not wanted (or that has no ns/coll at
\* all) never causes a POST, and once the consumer is back at the stream
\* after it, the slot holds that event's id.
C5_UnwantedSkippedAndPersisted ==
    /\ \A k \in 1..Len(posts) : IsWanted(posts[k].ev)
    /\ \A r \in inflight : IsWanted(r.ev)
    /\ pc \in {"handle", "post"} => IsWanted(cursor)
    /\ (pc = "watching" /\ cursor > runStart /\ ~IsWanted(cursor))
          => file = FileOf(TokenOf(cursor))

\* C5 witness: an event without ns/coll was skipped and persisted, nothing
\* was posted.
C5_Witness ==
    /\ pc = "watching"
    /\ cursor > runStart
    /\ Coll(stream[cursor]) = None
    /\ file = FileOf(TokenOf(cursor))
    /\ posts = <<>>

\* C6: at most one POST is in flight; requests reach the endpoint in stream
\* order; while event n+1 is read, handled or about to be persisted, the
\* slot already holds the id of event n.
C6_Sequential ==
    /\ Cardinality(inflight) <= 1
    /\ \A j, k \in 1..Len(posts) : j < k => posts[j].ev <= posts[k].ev
    /\ (pc \in {"handle", "post", "persist"} /\ cursor > runStart + 1)
          => file = FileOf(TokenOf(cursor - 1))

\* C6 witness: the second event of a run is being posted after the first
\* one was posted and persisted.
C6_Witness ==
    /\ pc = "post"
    /\ cursor = runStart + 2
    /\ Cardinality(inflight) = 1
    /\ Len(posts) > postsAtOpen
    /\ posts[Len(posts)].ev = cursor - 1
    /\ file = FileOf(TokenOf(cursor - 1))

\* C7: the POST counts as successful (handle_change returns, the position is
\* then advanced) exactly when the status is 2xx; for any other status
\* handle_change raises, the run ends and the slot is left alone.
C7_SuccessIff2xx ==
    [][ (pc = "post" /\ Len(posts') > Len(posts) /\ posts'[Len(posts')].seen)
          => IF Is2xx(posts'[Len(posts')].status)
             THEN pc' = "persist"
             ELSE pc' = "down" /\ err' = "HTTPError" /\ file' = file ]_vars

\* The wanted changes among lo+1..hi, in stream order.
RECURSIVE WantedIn(_, _)
WantedIn(lo, hi) ==
    IF hi <= lo THEN <<>>
    ELSE IF IsWanted(hi) THEN Append(WantedIn(lo, hi - 1), hi)
         ELSE WantedIn(lo, hi - 1)

\* The requests of the current run.
RunPosts == SubSeq(posts, postsAtOpen + 1, Len(posts))

\* The record handle_change derives the labels of change i from.
OwnRecord(i) == ("collection" :> Coll(stream[i])) @@ stream[i]["fullDocument"]

\* C8: when a run is back at the stream, having processed the events after
\* runStart up to cursor without error, it has made one POST per wanted
\* event, in order, each with one stream holding one value and the row_key
\* of its own event, and the slot holds the id of the last event.
C8_OnePostPerWantedEvent ==
    pc = "watching" =>
        /\ Len(RunPosts) = Len(WantedIn(runStart, cursor))
        /\ \A k \in 1..Len(RunPosts) :
              /\ RunPosts[k].ev = WantedIn(runStart, cursor)[k]
              /\ Len(RunPosts[k].payload.streams) = 1
              /\ Len(RunPosts[k].payload.streams[1].values) = 1
              /\ RunPosts[k].payload.streams[1].stream["row_key"]
                    = RowKey(OwnRecord(RunPosts[k].ev))
        /\ cursor > runStart => file = FileOf(TokenOf(cursor))

\* C8 witness: two alert events with the same key were both posted in one
\* run and the slot holds the id of the second.
C8_Witness ==
    /\ pc = "watching"
    /\ cursor = runStart + 2
    /\ Len(RunPosts) = 2
    /\ RunPosts[1].ev = cursor - 1
    /\ RunPosts[2].ev = cursor
    /\ RunPosts[1].payload = RunPosts[2].payload
    /\ RunPosts[2].payload.streams[1].stream["row_key"] = "k1"
    /\ file = FileOf(TokenOf(cursor))

\* The row_key the table of the label deriver gives for a record.
TableRowKey(change) ==
    LET c == change["collection"] IN
    IF c \in {"admin_activity_log", "alarm", "alert", "event", "trigger_log"}
    THEN (IF "key" \in DOMAIN change THEN change["key"] ELSE "unknown")
    ELSE IF c = "threat_log_view"
    THEN (IF "signature" \in DOMAIN change THEN change["signature"]
          ELSE "unknown")
    ELSE \* inspection_log
         (IF "log_source" \in DOMAIN change THEN change["log_source"] ELSE "")
         \o "/" \o
         (IF "action" \in DOMAIN change THEN change["action"] ELSE "")

\* C9: for each of the seven wanted collections _labels_for_change returns
\* the row_key of the table: key or unknown; signature or unknown for
\* threat_log_view; log_source, '/', action for inspection_log with an empty
\* string for a missing field.
C9_RowKeyTable ==
    (pc = "label_return" /\ lchange["collection"] \in WANTED_COLLECTIONS)
        => /\ lresult.raised = None
           /\ "row_key" \in DOMAIN lresult.value
           /\ lresult.value["row_key"] = TableRowKey(lchange)

\* C9 witness: inspection_log with both fields missing gives '/'.
C9_Witness ==
    /\ pc = "label_return"
    /\ lchange["collection"] = "inspection_log"
    /\ "log_source" \notin DOMAIN lchange
    /\ "action" \notin DOMAIN lchange
    /\ lresult.value["row_key"] = "/"

\* C10: called with a record whose collection is not one of the seven,
\* _labels_for_change fails with a ConfigurationError instead of returning
\* a label set.
C10_OtherCollectionRaises ==
    (pc = "label_return" /\ lchange["collection"] \notin WANTED_COLLECTIONS)
        => lresult.raised = "ConfigurationError"

\* The document of change i lacks `time` or `_id`.
Malformed(i) ==
    \/ "_id" \notin DOMAIN stream[i]["fullDocument"]
    \/ "time" \notin DOMAIN stream[i]["fullDocument"]

\* C11: while a wanted event whose document lacks `time` or `_id` is being
\* handled, no request is sent for it, the token file stays as it was, and
\* the only way on is the end of the run: with the KeyError handle_change
\* raises before the POST (or because the process was terminated).
C11_MalformedAbortsBeforePost ==
    [][ (pc = "handle" /\ Malformed(cursor))
          => /\ pc' \in {"handle", "down"}
             /\ pc' = "down" => err' \in {"KeyError", "killed"}
             /\ posts' = posts
             /\ inflight' = {}
             /\ file' = file
             /\ cursor' = cursor ]_vars

\* C11 witness: a run that had persisted the previous event ended with the
\* KeyError of an event without `time`; nothing was posted for it and the
\* slot holds the previous position.
C11_Witness ==
    /\ pc = "down"
    /\ err = "KeyError"
    /\ cursor > 1
    /\ IsWanted(cursor)
    /\ "time" \notin DOMAIN stream[cursor]["fullDocument"]
    /\ file = FileOf(TokenOf(cursor - 1))
    /\ \A k \in 1..Len(posts) : posts[k].ev # cursor

Zeros9 == <<0, 0, 0, 0, 0, 0, 0, 0, 0>>

\* C12: `time` is divided by 1000 exactly when its decimal string is longer
\* than 10 characters and is left as it is otherwise; the timestamp is the
\* decimal string of the whole seconds times 1 000 000 000, the fraction cut
\* off; so a millisecond value of 11 to 13 digits and the seconds value of
\* the same instant give the same timestamp.
C12_TimestampNormalisation ==
    pc = "time_return" =>
        /\ fres.time.float <=> Len(farg) > 10
        /\ ~fres.time.float => fres.time.whole = farg
        /\ fres.ts = IF farg = <<0>> THEN <<0>>
                     ELSE IF Len(farg) > 10
                          THEN SubSeq(farg, 1, Len(farg) - 3) \o Zeros9
                          ELSE farg \o Zeros9
        /\ Len(farg) \in 11..13
              => fres.ts = Ts(SubSeq(farg, 1, Len(farg) - 3))

\* C12 witness: 1700000000000 gives "1700000000000000000", as 1700000000.
C12_Witness ==
    /\ pc = "time_return"
    /\ farg = T13
    /\ fres.time.whole = T10
    /\ fres.ts = T10 \o Zeros9
    /\ Ts(T10) = fres.ts

\* Key k contains the separator.
HasSep(k) == \E i \in 1..Len(k) : k[i] = separator

\* The place of the first separator of k.
SepAt(k) ==
    CHOOSE i \in 1..Len(k) :
        k[i] = separator /\ \A j \in 1..(i - 1) : k[j] # separator

\* k up to its first separator, and after it.
FirstSeg(k) == IF HasSep(k) THEN SubSeq(k, 1, SepAt(k) - 1) ELSE k
RestSeg(k) == SubSeq(k, SepAt(k) + 1, Len(k))

\* Re-nesting a flat mapping on the separator: a key without separator
\* keeps its leaf; the keys starting with s and a separator become the
\* nested mapping under s, re-nested in turn.
RECURSIVE Renest(_)
Renest(f) ==
    [ s \in { FirstSeg(k) : k \in DOMAIN f } |->
        IF s \in DOMAIN f THEN f[s]
        ELSE Map(Renest(
                [ r \in { RestSeg(k) : k \in { kk \in DOMAIN f :
                                HasSep(kk) /\ FirstSeg(kk) = s } }
                    |-> f[s \o <<separator>> \o r] ])) ]

\* The key paths of mapping m that end in a leaf.
RECURSIVE Paths(_)
Paths(m) ==
    UNION { IF m[k].map THEN { <<k>> \o q : q \in Paths(m[k].v) }
            ELSE { <<k>> } : k \in DOMAIN m }

\* The key a path is joined to.
RECURSIVE JoinPath(_)
JoinPath(path) ==
    IF Len(path) = 1 THEN path[1]
    ELSE NewKey(JoinPath(Front(path)), path[Len(path)])

\* No two leaves of m are joined to the same key.
NoCollision(m) ==
    \A q, r \in Paths(m) : JoinPath(q) = JoinPath(r) => q = r

\* Every key of m, at every level, is non-empty and free of the separator,
\* and no nested mapping is empty.
RECURSIVE Plain(_)
Plain(m) ==
    \A k \in DOMAIN m :
        /\ k # <<>>
        /\ ~HasSep(k)
        /\ m[k].map => (DOMAIN m[k].v # {} /\ Plain(m[k].v))

\* No value of m is a mapping.
IsFlat(m) == \A k \in DOMAIN m : ~m[k].map

\* C13: for any nested mapping without key collisions after joining,
\* flatten followed by re-nesting on the separator gives the mapping back,
\* also when it holds empty nested mappings or keys with the separator.
C13_RoundTrip ==
    (pc = "flatten_return" /\ NoCollision(farg.x))
        => Renest(fres.flat) = farg.x

\* C13 as amended: for any nested mapping whose keys are all non-empty and
\* free of the separator and whose nested mappings are all non-empty,
\* flatten followed by re-nesting on the separator gives the mapping back.
C13_RoundTripPlain ==
    (pc = "flatten_return" /\ Plain(farg.x))
        => (NoCollision(farg.x) /\ Renest(fres.flat) = farg.x)

\* C13 witness: a three-level mapping of plain keys is flattened to keys
\* such as a_a_b and re-nested to itself.
C13_Witness ==
    /\ pc = "flatten_return"
    /\ Plain(farg.x)
    /\ <<"a", separator, "a", separator, "b">> \in DOMAIN fres.flat
    /\ <<"a", separator, "b">> \in DOMAIN fres.flat
    /\ Renest(fres.flat) = farg.x

\* C14: flatten(flatten(x)) equals flatten(x) for every mapping x, and
\* flatten of a mapping without mapping values equals that mapping.
C14_Idempotent ==
    pc = "flatten_return" =>
        /\ fres.twice = fres.flat
        /\ IsFlat(fres.flat)
        /\ IsFlat(farg.x) => fres.flat = farg.x

\* C14 witness: a mapping with a nested mapping and two leaves joined to
\* the same key a_b; flattening its flattening changes nothing.
C14_Witness ==
    /\ pc = "flatten_return"
    /\ ~IsFlat(farg.x)
    /\ ~NoCollision(farg.x)
    /\ <<"a", separator, "b">> \in DOMAIN fres.flat
    /\ fres.twice = fres.flat

\* C15: a start reads the slot once, into resume_token, and leaves it alone;
\* the stream is opened after the stored position, or at the current end of
\* the stream when the slot does not exist; the first change a run handles
\* is the one right after the position it opened at, and no change at or
\* before that position is handled by the run.
C15_ResumeAfterStored ==
    [][ /\ (pc = "down" /\ pc' = "constructed")
            => /\ file' = file
               /\ resume_token' = IF HasPosition THEN Unpickle(file.data)
                                  ELSE None
        /\ (pc = "constructed" /\ pc' = "watching")
            => /\ file' = file
               /\ cursor' = IF HasPosition THEN FilePos ELSE Len(stream)
               /\ runStart' = cursor'
        /\ (pc = "watching" /\ cursor = runStart /\ cursor' # cursor)
            => /\ cursor' = runStart + 1
               /\ HasPosition => FilePos = runStart
        /\ pc' \in {"handle", "post", "persist", "dump"}
            => cursor' > runStart' ]_vars

\* C15 witness: the first event was delivered and persisted, the second was
\* answered 503 and the run ended; the second start resumed after the first
\* event and is handling the second one again.
C15_Witness ==
    /\ starts = 2
    /\ pc = "handle"
    /\ HasPosition
    /\ FilePos = 1
    /\ runStart = 1
    /\ cursor = 2
    /\ \E k \in 1..Len(posts) : posts[k].ev = 2 /\ posts[k].status = 503

\* C16: a PyMongoError from opening the stream or from the iteration between
\* two events ends the run; no request is in flight or sent for it, and the
\* slot is left as it is: it holds the id of the last event whose persist
\* step completed, or does not exist when none has.
C16_StreamErrorKeepsPosition ==
    [][ (pc # "down" /\ err' = "PyMongoError")
          => /\ pc \in {"constructed", "watching"}
             /\ pc' = "down"
             /\ inflight = {}
             /\ inflight' = {}
             /\ posts' = posts
             /\ file' = file
             /\ file' = IF lastPersist = 0
                        THEN [ exists |-> FALSE, data |-> <<>> ]
                        ELSE FileOf(TokenOf(lastPersist)) ]_vars

\* C16 witness: the stream failed after the first event was delivered and
\* persisted and while a second one was waiting; the run is over, nothing
\* was sent for the second event and the slot holds the id of the first.
C16_Witness ==
    /\ pc = "down"
    /\ err = "PyMongoError"
    /\ lastPersist = 1
    /\ cursor = 1
    /\ Len(stream) = 2
    /\ IsWanted(2)
    /\ file = FileOf(TokenOf(1))
    /\ \A k \in 1..Len(posts) : posts[k].ev = 1

\* The slot's position moves forward: a step that changes a complete
\* position into another complete position stores a later one.
PositionForward ==
    (HasPosition /\ HasPosition' /\ file' # file) => FilePos' > FilePos

\* C17: across events, aborts and restarts the slot's position only moves
\* forward: every overwrite stores the id of a later event than the one it
\* replaces, and once a position has been stored a stopped consumer's slot
\* still holds one, no earlier than the last one stored: it is never reset
\* to empty.
C17_PositionOnlyForward ==
    [][ /\ PositionForward
        /\ (pc' = "down" /\ lastPersist' > 0)
              => (HasPosition' /\ FilePos' >= lastPersist') ]_vars

\* The overwrites that complete store later and later ids.
CompleteOverwritesForward == [][PositionForward]_vars

\* The number of requests of the current run the endpoint answered 2xx for
\* change i.
RunDeliveries(i) ==
    Cardinality({ k \in (postsAtOpen + 1)..Len(posts) :
                    posts[k].ev = i /\ Is2xx(posts[k].status) })

\* A run that has not aborted has delivered every wanted change it went
\* past exactly once.
OncePerRun ==
    pc = "watching" =>
        \A i \in (runStart + 1)..cursor : IsWanted(i) => RunDeliveries(i) = 1

\* A run that has not aborted has delivered no change more than once.
AtMostOncePerRun ==
    pc = "watching" =>
        \A i \in (runStart + 1)..cursor : RunDeliveries(i) <= 1

\* A change is delivered again only by a later run than the one that
\* delivered it, only while its id has not been persisted, and only as the
\* first change that run handles: the one right after the stored position.
Redelivery ==
    Len(posts') = Len(posts) + 1 =>
        LET e == posts'[Len(posts')] IN
        (Is2xx(e.status) /\ Delivered(e.ev))
            => /\ RunDeliveries(e.ev) = 0
               /\ lastPersist < e.ev
               /\ e.ev = runStart + 1
               /\ starts > 1

\* C18: duplicate delivery is bounded: a run without abort delivers every
\* wanted event exactly once; an event is delivered again only when the
\* process stopped after its successful POST and before its id was
\* persisted, and a restart re-delivers at most one delivered event, the
\* one right after the stored position.
C18_BoundedDuplicates ==
    [][ OncePerRun' /\ Redelivery ]_vars

\* The bound on duplicates by itself.
DuplicatesBounded ==
    [][ AtMostOncePerRun' /\ Redelivery ]_vars

\* An event delivered twice: the endpoint stored the first request, the
\* process stopped before the id was persisted, and the next run delivered
\* the event again.
Redelivered ==
    /\ starts = 2
    /\ pc = "persist"
    /\ cursor = runStart + 1
    /\ Cardinality({ k \in 1..Len(posts) :
                       posts[k].ev = cursor /\ Is2xx(posts[k].status) }) = 2

\* The payload was built for change i: its one stream carries the five
\* labels, the collection label and the line's collection are the
\* collection of the change's namespace, which is a wanted one.
LabelsOfOwnEvent(payload, i) ==
    LET l == payload.streams[1].stream
        line == payload.streams[1].values[1][2]
    IN  /\ Len(payload.streams) = 1
        /\ DOMAIN l = {"source", "job", "host", "collection", "row_key"}
        /\ l["source"] = "unifi-mongodb-watcher"
        /\ l["job"] = "unifi-mongodb-watcher"
        /\ l["host"] = HOST
        /\ l["collection"] = stream[i]["ns"]["coll"]
        /\ l["collection"] = Coll(stream[i])
        /\ l["collection"] \in WANTED_COLLECTIONS
        /\ line["collection"] = l["collection"]
        /\ l["row_key"] = TableRowKey(line)

\* C19: every payload handed to the endpoint carries the labels source,
\* job, host, collection and row_key; the collection label is the
\* collection of the event's own namespace, also when the document has a
\* collection field of its own, and it is a wanted collection: the one the
\* decision to dispatch was taken on.
C19_LabelsFromEventCollection ==
    /\ \A r \in inflight : LabelsOfOwnEvent(r.payload, r.ev)
    /\ \A k \in 1..Len(posts) : LabelsOfOwnEvent(posts[k].payload, posts[k].ev)

\* C19 witness: an inspection_log event whose document has a collection
\* field saying alert was posted with the collection label inspection_log
\* and the row_key of an inspection_log record.
C19_Witness ==
    \E k \in 1..Len(posts) :
        LET i == posts[k].ev IN
        /\ stream[i]["fullDocument"]["collection"] = "alert"
        /\ Coll(stream[i]) = "inspection_log"
        /\ posts[k].payload.streams[1].stream["collection"] = "inspection_log"
        /\ posts[k].payload.streams[1].stream["row_key"] = "fw/"

====
